---- MODULE Spec2Model ----
(***************************************************************************)
(* Dataset providers (Local, RT) and pipeline sinks (Local, RT) of the     *)
(* DocWrangler server: server/app/providers/datasets.py and pipelines.py,  *)
(* called from server/app/routes/filesystem.py.                            *)
(*                                                                         *)
(* Python str and bytes values are TLA+ strings, handled character by      *)
(* character with Len, SubSeq and \o.  The character "#" stands for a byte *)
(* that is not valid UTF-8 (0xFF).                                         *)
(***************************************************************************)
EXTENDS Integers, Sequences, FiniteSets, TLC

None == "<None>"

(***************************************************************************)
(* str / bytes primitives                                                  *)
(***************************************************************************)
Char(s, i) == SubSeq(s, i, i)

StartsWith(s, p) == Len(s) >= Len(p) /\ SubSeq(s, 1, Len(p)) = p

EndsWith(s, p) == Len(s) >= Len(p) /\ SubSeq(s, Len(s) - Len(p) + 1, Len(s)) = p

Contains(s, c) == \E i \in 1..Len(s) : Char(s, i) = c

\* index of the first occurrence of the one-character string c in s at or
\* after position i, or Len(s) + 1
RECURSIVE IndexFrom(_, _, _)
IndexFrom(s, c, i) ==
    IF i > Len(s) THEN Len(s) + 1
    ELSE IF Char(s, i) = c THEN i
    ELSE IndexFrom(s, c, i + 1)

\* str.split(sep): the list of pieces between the occurrences of sep
RECURSIVE Split(_, _)
Split(s, sep) ==
    LET k == IndexFrom(s, sep, 1)
    IN  IF k > Len(s) THEN <<s>>
        ELSE <<SubSeq(s, 1, k - 1)>> \o Split(SubSeq(s, k + 1, Len(s)), sep)

\* str.splitlines(): as split("\n") without a final empty piece
SplitLines(s) ==
    LET parts == Split(s, "\n")
    IN  IF parts[Len(parts)] = "" THEN SubSeq(parts, 1, Len(parts) - 1) ELSE parts

LowerChar(c) ==
    CASE c = "C" -> "c"
      [] c = "S" -> "s"
      [] c = "V" -> "v"
      [] OTHER   -> c

\* str.lower()
RECURSIVE Lower(_)
Lower(s) == IF s = "" THEN "" ELSE LowerChar(Char(s, 1)) \o Lower(SubSeq(s, 2, Len(s)))

\* str.replace(old, new): every non-overlapping occurrence, left to right
RECURSIVE Replace(_, _, _)
Replace(s, old, new) ==
    IF Len(s) < Len(old) THEN s
    ELSE IF StartsWith(s, old)
         THEN new \o Replace(SubSeq(s, Len(old) + 1, Len(s)), old, new)
         ELSE Char(s, 1) \o Replace(SubSeq(s, 2, Len(s)), old, new)

xFF == "#"

\* bytes.decode("utf-8") succeeds
DecodesUtf8(b) == ~Contains(b, xFF)

(***************************************************************************)
(* json.loads: a recursive-descent reading of the JSON grammar (arrays,    *)
(* objects, strings with backslash escapes, integers, null/true/false).    *)
(* Each Parse operator takes a position and returns the position after     *)
(* what it read, or 0 when the text is not JSON there.                     *)
(***************************************************************************)
IsWs(c) == c \in {" ", "\n"}

IsDigit(c) == c \in {"0", "1", "2", "3", "4", "5", "6", "7", "8", "9"}

RECURSIVE SkipWs(_, _)
SkipWs(s, i) == IF i <= Len(s) /\ IsWs(Char(s, i)) THEN SkipWs(s, i + 1) ELSE i

RECURSIVE SkipDigits(_, _)
SkipDigits(s, i) == IF i <= Len(s) /\ IsDigit(Char(s, i)) THEN SkipDigits(s, i + 1) ELSE i

MatchAt(s, i, lit) == i + Len(lit) - 1 <= Len(s) /\ SubSeq(s, i, i + Len(lit) - 1) = lit

\* i is the position after the opening quote
RECURSIVE ParseStringBody(_, _)
ParseStringBody(s, i) ==
    IF i > Len(s) THEN 0
    ELSE IF Char(s, i) = "\"" THEN i + 1
    ELSE IF Char(s, i) = "\n" THEN 0
    ELSE IF Char(s, i) = "\\"
         THEN IF i + 1 <= Len(s) /\ Char(s, i + 1) \in {"\"", "\\", "/", "b", "f", "n", "r", "t"}
              THEN ParseStringBody(s, i + 2)
              ELSE 0
    ELSE ParseStringBody(s, i + 1)

ParseNumber(s, i) ==
    IF Char(s, i) = "0" THEN i + 1 ELSE SkipDigits(s, i)

RECURSIVE ParseValue(_, _)
RECURSIVE ParseElements(_, _)
RECURSIVE ParseMembers(_, _)

ParseValue(s, i0) ==
    LET i == SkipWs(s, i0)
    IN  IF i > Len(s) THEN 0
        ELSE IF Char(s, i) = "\"" THEN ParseStringBody(s, i + 1)
        ELSE IF IsDigit(Char(s, i)) THEN ParseNumber(s, i)
        ELSE IF MatchAt(s, i, "null") THEN i + 4
        ELSE IF MatchAt(s, i, "true") THEN i + 4
        ELSE IF MatchAt(s, i, "false") THEN i + 5
        ELSE IF Char(s, i) = "["
             THEN LET j == SkipWs(s, i + 1)
                  IN  IF j <= Len(s) /\ Char(s, j) = "]" THEN j + 1
                      ELSE ParseElements(s, j)
        ELSE IF Char(s, i) = "{"
             THEN LET j == SkipWs(s, i + 1)
                  IN  IF j <= Len(s) /\ Char(s, j) = "}" THEN j + 1
                      ELSE ParseMembers(s, j)
        ELSE 0

\* value ("," value)* "]"
ParseElements(s, i) ==
    LET v == ParseValue(s, i)
        j == SkipWs(s, v)
    IN  IF v = 0 \/ j > Len(s) THEN 0
        ELSE IF Char(s, j) = "]" THEN j + 1
        ELSE IF Char(s, j) = "," THEN ParseElements(s, j + 1)
        ELSE 0

\* string ":" value ("," string ":" value)* "}"
ParseMembers(s, i0) ==
    LET i == SkipWs(s, i0)
        k == IF i <= Len(s) /\ Char(s, i) = "\"" THEN ParseStringBody(s, i + 1) ELSE 0
        c == SkipWs(s, k)
        v == IF k # 0 /\ c <= Len(s) /\ Char(s, c) = ":" THEN ParseValue(s, c + 1) ELSE 0
        j == SkipWs(s, v)
    IN  IF v = 0 \/ j > Len(s) THEN 0
        ELSE IF Char(s, j) = "}" THEN j + 1
        ELSE IF Char(s, j) = "," THEN ParseMembers(s, j + 1)
        ELSE 0

\* json.loads(content) returns: one JSON value, then only whitespace
JsonLoads(content) ==
    /\ DecodesUtf8(content)
    /\ LET v == ParseValue(content, 1)
       IN  v # 0 /\ SkipWs(content, v) = Len(content) + 1

(***************************************************************************)
(* csv.DictReader and json.dumps.  A dict is the sequence of its items in  *)
(* insertion order, each [k |-> key, v |-> value]; a value is JStr(s),     *)
(* JNull (Python None) or JList(<<s, ...>>).  A CSV field is read as the   *)
(* csv module reads an unquoted field.                                     *)
(***************************************************************************)
JNull == [t |-> "null"]

JStr(s) == [t |-> "str", s |-> s]

JList(l) == [t |-> "list", l |-> l]

\* d[k] = v
DictPut(d, k, v) ==
    IF \E i \in 1..Len(d) : d[i].k = k
    THEN [i \in 1..Len(d) |-> IF d[i].k = k THEN [k |-> k, v |-> v] ELSE d[i]]
    ELSE Append(d, [k |-> k, v |-> v])

\* csv.reader on one line: an empty line is the empty row
CsvRow(line) == IF line = "" THEN <<>> ELSE Split(line, ",")

Min(a, b) == IF a < b THEN a ELSE b

\* dict(zip(fieldnames, row)), items 1..n
RECURSIVE ZipDict(_, _, _)
ZipDict(fieldnames, row, n) ==
    IF n = 0 THEN <<>>
    ELSE DictPut(ZipDict(fieldnames, row, n - 1), fieldnames[n], JStr(row[n]))

\* d[key] = restval for the keys fieldnames[from..]
RECURSIVE FillRest(_, _, _)
FillRest(d, fieldnames, from) ==
    IF from > Len(fieldnames) THEN d
    ELSE FillRest(DictPut(d, fieldnames[from], JNull), fieldnames, from + 1)

\* DictReader.__next__ on one non-empty row (restkey = None, restval = None)
RowDict(fieldnames, row) ==
    LET lf == Len(fieldnames)
        lr == Len(row)
        d  == ZipDict(fieldnames, row, Min(lf, lr))
    IN  IF lf < lr THEN DictPut(d, None, JList(SubSeq(row, lf + 1, lr)))
        ELSE IF lf > lr THEN FillRest(d, fieldnames, lr + 1)
        ELSE d

RECURSIVE DictRows(_, _, _)
DictRows(fieldnames, lines, i) ==
    IF i > Len(lines) THEN <<>>
    ELSE IF CsvRow(lines[i]) = <<>> THEN DictRows(fieldnames, lines, i + 1)
    ELSE <<RowDict(fieldnames, CsvRow(lines[i]))>> \o DictRows(fieldnames, lines, i + 1)

\* list(csv.DictReader(lines)): the first line is the header
DictReader(lines) ==
    IF lines = <<>> THEN <<>> ELSE DictRows(CsvRow(lines[1]), lines, 2)

RECURSIVE JsonEscape(_)
JsonEscape(s) ==
    IF s = "" THEN ""
    ELSE (IF Char(s, 1) \in {"\"", "\\"} THEN "\\" \o Char(s, 1) ELSE Char(s, 1))
         \o JsonEscape(SubSeq(s, 2, Len(s)))

DumpStr(s) == "\"" \o JsonEscape(s) \o "\""

RECURSIVE DumpList(_, _)
DumpList(l, i) ==
    IF i > Len(l) THEN ""
    ELSE (IF i > 1 THEN ", " ELSE "") \o DumpStr(l[i]) \o DumpList(l, i + 1)

DumpValue(v) ==
    IF v.t = "null" THEN "null"
    ELSE IF v.t = "list" THEN "[" \o DumpList(v.l, 1) \o "]"
    ELSE DumpStr(v.s)

\* a None key is written as "null"
DumpKey(k) == IF k = None THEN "\"null\"" ELSE DumpStr(k)

RECURSIVE DumpItems(_, _)
DumpItems(d, i) ==
    IF i > Len(d) THEN ""
    ELSE (IF i > 1 THEN ", " ELSE "") \o DumpKey(d[i].k) \o ": " \o DumpValue(d[i].v)
         \o DumpItems(d, i + 1)

RECURSIVE DumpDicts(_, _)
DumpDicts(data, i) ==
    IF i > Len(data) THEN ""
    ELSE (IF i > 1 THEN ", " ELSE "") \o "{" \o DumpItems(data[i], 1) \o "}"
         \o DumpDicts(data, i + 1)

\* json.dumps(data) for a list of dicts
JsonDumps(data) == "[" \o DumpDicts(data, 1) \o "]"

(***************************************************************************)
(* Format normalizer (datasets.py)                                         *)
(***************************************************************************)
\* the outcome of a step that may raise: status 200, or the HTTP status the
\* raised exception is answered with (an exception that is not an
\* HTTPException is answered 500 by the routes, detail = its class)
Raise(status, detail) == [status |-> status, detail |-> detail, out |-> ""]

Value(out) == [status |-> 200, detail |-> "", out |-> out]

_validate_json_content(content) ==
    IF ~DecodesUtf8(content) THEN Raise(500, "UnicodeDecodeError")
    ELSE IF ~JsonLoads(content) THEN Raise(400, "Invalid JSON format")
    ELSE Value(content)

_convert_csv_to_json(csv_content) ==
    IF ~DecodesUtf8(csv_content) THEN Raise(400, "Invalid CSV encoding")
    ELSE LET data == DictReader(SplitLines(csv_content))
         IN  IF data = <<>> THEN Raise(400, "CSV file is empty")
             ELSE Value(JsonDumps(data))

_is_likely_csv(content, filename) ==
    IF EndsWith(Lower(filename), ".csv") THEN TRUE
    ELSE LET first_line == Split(content, "\n")[1]
         IN  /\ DecodesUtf8(first_line)
             /\ Contains(first_line, ",")
             /\ ~\E c \in {"{", "}", "[", "]"} : Contains(first_line, c)

(***************************************************************************)
(* pathlib and the filesystem.  A path is its string; the disk is          *)
(* [fs |-> the files, path :> bytes, dirs |-> the directories].  The       *)
(* paths of the model are absolute and have no ".." segment.               *)
(***************************************************************************)
RECURSIVE JoinSegments(_)
JoinSegments(segs) ==
    IF segs = <<>> THEN "" ELSE "/" \o Head(segs) \o JoinSegments(Tail(segs))

Segments(p) == SelectSeq(Split(p, "/"), LAMBDA seg : seg # "" /\ seg # ".")

\* str(Path(p))
PathStr(p) == IF Segments(p) = <<>> THEN "/" ELSE JoinSegments(Segments(p))

\* str(Path(dir) / name): an absolute name replaces dir
PathJoin(dir, name) ==
    IF StartsWith(name, "/") THEN PathStr(name) ELSE PathStr(dir \o "/" \o name)

Parent(p) ==
    LET segs == Segments(p)
    IN  IF segs = <<>> THEN "/" ELSE PathStr(JoinSegments(SubSeq(segs, 1, Len(segs) - 1)))

\* Path(p).name
PathName(p) == LET segs == Segments(p) IN IF segs = <<>> THEN "" ELSE segs[Len(segs)]

RECURSIVE Ancestors(_)
Ancestors(p) == IF p = "/" THEN {"/"} ELSE {p} \cup Ancestors(Parent(p))

\* p lies under the directory dir
PathUnder(p, dir) == p # dir /\ dir \in Ancestors(p)

Exists(disk, p) == p \in DOMAIN disk.fs \/ p \in disk.dirs

\* Path.mkdir(parents=True, exist_ok=True)
Mkdir(disk, p) == [disk EXCEPT !.dirs = @ \cup Ancestors(p)]

\* the exception Path.write_bytes raises at p, or "" when it writes
WriteError(disk, p) ==
    IF p \in disk.dirs THEN "IsADirectoryError"
    ELSE IF Parent(p) \notin disk.dirs THEN "FileNotFoundError"
    ELSE ""

WriteBytes(disk, p, data) ==
    [disk EXCEPT !.fs = (p :> data) @@ @]

(***************************************************************************)
(* DatasetLoadResult, or the failure of the call                           *)
(***************************************************************************)
NoMetadata == [k \in {} |-> ""]

\* dict | dict
Merge(a, b) == [k \in DOMAIN a \cup DOMAIN b |-> IF k \in DOMAIN b THEN b[k] ELSE a[k]]

DatasetLoadResult(path, content, metadata) ==
    [status |-> 200, detail |-> "", path |-> path, content |-> content,
     metadata |-> metadata, content_type |-> "application/json"]

HTTPException(status, detail) ==
    [status |-> status, detail |-> detail, path |-> "", content |-> "",
     metadata |-> NoMetadata, content_type |-> ""]

Falsy(x) == x = None \/ x = ""

(***************************************************************************)
(* LocalDatasetProvider; self is [home_dir, subdir].  Each operator gives  *)
(* [disk |-> the disk afterwards, ret |-> the result or the failure].      *)
(***************************************************************************)
Local_namespace_dir(self, namespace) ==
    PathJoin(PathJoin(PathJoin(self.home_dir, ".docetl"), namespace), self.subdir)

\* the normalization inside _write_content: final_content, or what is raised
Normalize(content, filename) ==
    LET converted == IF _is_likely_csv(content, filename)
                     THEN _convert_csv_to_json(content)
                     ELSE Value(content)
    IN  IF converted.status # 200 THEN converted
        ELSE _validate_json_content(converted.out)

\* _write_content writing the file before it validates the content
Local_write_content_write_first(disk, self, namespace, filename, content) ==
    LET target_dir == Local_namespace_dir(self, namespace)
        made       == Mkdir(disk, target_dir)
        converted  == IF _is_likely_csv(content, filename)
                      THEN _convert_csv_to_json(content)
                      ELSE Value(content)
        validated  == _validate_json_content(converted.out)
        safe_name  == Replace(filename, ".csv", ".json")
        file_path  == PathJoin(target_dir, safe_name)
        written    == WriteBytes(made, file_path, converted.out)
    IN  IF converted.status # 200
        THEN [disk |-> made, ret |-> HTTPException(converted.status, converted.detail)]
        ELSE IF WriteError(made, file_path) # ""
        THEN [disk |-> made, ret |-> HTTPException(500, WriteError(made, file_path))]
        ELSE IF validated.status # 200
        THEN [disk |-> written, ret |-> HTTPException(validated.status, validated.detail)]
        ELSE [disk |-> written,
              ret  |-> DatasetLoadResult(file_path, converted.out,
                          [provider |-> "local", filename |-> safe_name,
                           namespace |-> namespace])]

Local_write_content(disk, self, namespace, filename, content) ==
    LET target_dir == Local_namespace_dir(self, namespace)
        made       == Mkdir(disk, target_dir)
        validated  == Normalize(content, filename)
        final_content == validated.out
        safe_name  == Replace(filename, ".csv", ".json")
        file_path  == PathJoin(target_dir, safe_name)
    IN  IF validated.status # 200
        THEN [disk |-> made, ret |-> HTTPException(validated.status, validated.detail)]
        ELSE IF WriteError(made, file_path) # ""
        THEN [disk |-> made, ret |-> HTTPException(500, WriteError(made, file_path))]
        ELSE [disk |-> WriteBytes(made, file_path, final_content),
              ret  |-> DatasetLoadResult(file_path, final_content,
                          [provider |-> "local", filename |-> safe_name,
                           namespace |-> namespace])]

\* url.split("/")[-1] or "dataset.json"
UrlFilename(url) ==
    LET parts == Split(url, "/")
    IN  IF parts[Len(parts)] = "" THEN "dataset.json" ELSE parts[Len(parts)]

\* _download_url after the GET has answered resp = [status, content]
Local_download_url(disk, self, namespace, url, resp) ==
    IF resp.status # 200
    THEN [disk |-> disk, ret |-> HTTPException(400, "Failed to download from URL")]
    ELSE Local_write_content(disk, self, namespace, UrlFilename(url), resp.content)

\* load_dataset of a dataset_url that is not http(s)
\* the local-path branch of load_dataset answering the file's name as path
Local_load_path_returns_name(disk, dataset_url) ==
    LET file_path == PathStr(dataset_url)
    IN  IF ~Exists(disk, file_path)
        THEN [disk |-> disk, ret |-> HTTPException(404, "Dataset not found")]
        ELSE IF file_path \in disk.dirs
        THEN [disk |-> disk, ret |-> HTTPException(500, "IsADirectoryError")]
        ELSE [disk |-> disk,
              ret  |-> DatasetLoadResult(PathName(file_path), disk.fs[file_path],
                          [provider |-> "local", filename |-> PathName(file_path)])]

Local_load_path(disk, dataset_url) ==
    LET file_path == PathStr(dataset_url)
    IN  IF ~Exists(disk, file_path)
        THEN [disk |-> disk, ret |-> HTTPException(404, "Dataset not found")]
        ELSE IF file_path \in disk.dirs
        THEN [disk |-> disk, ret |-> HTTPException(500, "IsADirectoryError")]
        ELSE [disk |-> disk,
              ret  |-> DatasetLoadResult(file_path, disk.fs[file_path],
                          [provider |-> "local", filename |-> PathName(file_path)])]

(***************************************************************************)
(* The storage client (utils.storage) and the layout resolver              *)
(* (utils.parsing.rt_storage) are outside the providers; what they answer  *)
(* is chosen by the environment.                                           *)
(***************************************************************************)
\* what the environment makes of one construction attempt
ConfigOutcomes == {"ok", "invalid", "disabled", "build_error"}

ClientName(n) == "client" \o ToString(n)

\* _ensure_storage without the test of self._storage_client
_ensure_storage_uncached(client, n, outcome) ==
    IF outcome = "ok"
    THEN [status |-> 200, detail |-> "", storage |-> ClientName(n + 1),
          client |-> ClientName(n + 1), built |-> 1]
    ELSE [status |-> 500, detail |-> "ConfigurationError",
          storage |-> None, client |-> client, built |-> 0]

\* _ensure_storage of RTDatasetProvider and of RTPipelineSink (same code):
\* client is self._storage_client, n the number of clients built so far by
\* the instance; gives the client to use, self._storage_client afterwards,
\* and whether a client was built
_ensure_storage(client, n, outcome) ==
    IF ~Falsy(client)
    THEN [status |-> 200, detail |-> "", storage |-> client, client |-> client, built |-> 0]
    ELSE IF outcome = "invalid"
    THEN [status |-> 500, detail |-> "Invalid storage configuration",
          storage |-> None, client |-> client, built |-> 0]
    ELSE IF outcome = "disabled"
    THEN [status |-> 500, detail |-> "Storage client is disabled",
          storage |-> None, client |-> client, built |-> 0]
    ELSE IF outcome = "build_error"
    THEN [status |-> 500, detail |-> "ConfigurationError",
          storage |-> None, client |-> client, built |-> 0]
    ELSE [status |-> 200, detail |-> "", storage |-> ClientName(n + 1),
          client |-> ClientName(n + 1), built |-> 1]

\* str.rstrip("/")
RECURSIVE RStripSlash(_)
RStripSlash(s) ==
    IF s # "" /\ Char(s, Len(s)) = "/" THEN RStripSlash(SubSeq(s, 1, Len(s) - 1)) ELSE s

\* RTStorageResolver.load_layout(env)
LoadLayout(env) ==
    [bucket |-> "b", env_prefix |-> (IF Falsy(env) THEN "prod" ELSE env) \o "/"]

\* RTStorageResolver.build_unstructured_sv_prefix
BuildUnstructuredSvPrefix(layout, canonical_source_id, source_version_id) ==
    RStripSlash(layout.env_prefix) \o "/" \o canonical_source_id \o "/" \o source_version_id

(***************************************************************************)
(* RTDatasetProvider                                                       *)
(***************************************************************************)
RT_namespace_dir(self, namespace) ==
    PathJoin(PathJoin(PathJoin(self.home_dir, ".docetl"), namespace), self.subdir)

\* _write_bytes normalizing as _write_content does
RT_write_bytes_normalized(disk, self, namespace, filename, content, metadata) ==
    LET target_dir == RT_namespace_dir(self, namespace)
        made       == Mkdir(disk, target_dir)
        validated  == Normalize(content, filename)
        path       == PathJoin(target_dir, Replace(filename, ".csv", ".json"))
    IN  IF validated.status # 200
        THEN [disk |-> made, ret |-> HTTPException(validated.status, validated.detail)]
        ELSE [disk |-> WriteBytes(made, path, validated.out),
              ret  |-> DatasetLoadResult(path, validated.out,
                          Merge(metadata, [namespace |-> namespace, provider |-> "rt"]))]

RT_write_bytes(disk, self, namespace, filename, content, metadata) ==
    LET target_dir == RT_namespace_dir(self, namespace)
        made       == Mkdir(disk, target_dir)
        path       == PathJoin(target_dir, filename)
    IN  IF WriteError(made, path) # ""
        THEN [disk |-> made, ret |-> HTTPException(500, WriteError(made, path))]
        ELSE [disk |-> WriteBytes(made, path, content),
              ret  |-> DatasetLoadResult(path, content,
                          Merge(metadata, [namespace |-> namespace, provider |-> "rt"]))]

\* _download_http after the GET has answered
RT_download_http(disk, self, namespace, url, resp, metadata) ==
    IF resp.status # 200
    THEN [disk |-> disk, ret |-> HTTPException(400, "Failed to download dataset")]
    ELSE RT_write_bytes(disk, self, namespace, UrlFilename(url), resp.content, metadata)

\* _fetch_storage_uri after get_file_from_uri has answered got = [status,
\* content]; status 0 stands for an exception of the storage client
RT_fetch_storage_uri(disk, self, namespace, uri, got, metadata) ==
    IF got.status = 0 THEN [disk |-> disk, ret |-> HTTPException(500, "StorageError")]
    ELSE RT_write_bytes(disk, self, namespace, UrlFilename(uri), got.content,
                        Merge(metadata, [source_uri |-> uri]))

\* load_dataset of a dataset_url that is neither http(s) nor gs
RT_load_path(disk, dataset_url) ==
    LET file_path == PathStr(dataset_url)
    IN  IF ~Exists(disk, file_path)
        THEN [disk |-> disk, ret |-> HTTPException(404, "Dataset not found")]
        ELSE IF file_path \in disk.dirs
        THEN [disk |-> disk, ret |-> HTTPException(500, "IsADirectoryError")]
        ELSE [disk |-> disk,
              ret  |-> DatasetLoadResult(file_path, disk.fs[file_path],
                          [provider |-> "rt", dataset_url |-> dataset_url])]

\* x or y
Or(x, y) == IF Falsy(x) THEN y ELSE x

\* _resolve_source_version: the envelope URI and the metadata, once
\* load_layout has answered
\* the canonical id taken from project_id before canonical_source_id
EnvelopeCid_project_first(canonical_source_id, project_id) ==
    Or(Or(project_id, canonical_source_id), "document")

EnvelopeCid(canonical_source_id, project_id) == Or(Or(canonical_source_id, project_id), "document")

EnvelopeUri(layout, cid, source_version_id) ==
    "gs://" \o layout.bucket \o "/" \o BuildUnstructuredSvPrefix(layout, cid, source_version_id)
    \o "/envelope/envelope.json"

EnvelopeMetadata(layout, cid, source_version_id, env) ==
    [source_version_id |-> source_version_id, canonical_source_id |-> cid,
     env |-> Or(env, RStripSlash(layout.env_prefix))]

(***************************************************************************)
(* Pipeline sinks (pipelines.py).  metadata is a dict: a function from its *)
(* keys.                                                                   *)
(***************************************************************************)
\* metadata.get(key)
Get(metadata, key) == IF key \in DOMAIN metadata THEN metadata[key] ELSE None

PipelineSaveResult(path, uri, manifest, metadata) ==
    [status |-> 200, detail |-> "", path |-> path, uri |-> uri, manifest |-> manifest,
     input_path |-> Get(metadata, "input_path"),
     output_path |-> Get(metadata, "output_path")]

PipelineFailure(status, detail) ==
    [status |-> status, detail |-> detail, path |-> "", uri |-> None,
     manifest |-> NoMetadata, input_path |-> None, output_path |-> None]

\* LocalPipelineSink.save reporting version "local" whatever the metadata
LocalPipelineSink_save_fixed_version(disk, self, namespace, name, yaml_str, metadata) ==
    LET pipeline_dir == PathJoin(PathJoin(PathJoin(self.home_dir, ".docetl"), namespace),
                                 "pipelines")
        config_dir   == PathJoin(pipeline_dir, "configs")
        name_dir     == PathJoin(PathJoin(pipeline_dir, name), "intermediates")
        made         == Mkdir(Mkdir(disk, config_dir), name_dir)
        file_path    == PathJoin(config_dir, name \o ".yaml")
        manifest     == [pipeline_id |-> Or(Get(metadata, "pipeline_id"), name),
                         version     |-> "local",
                         owner       |-> Get(metadata, "owner"),
                         sink        |-> "local"]
    IN  IF WriteError(made, file_path) # ""
        THEN [disk |-> made, ret |-> PipelineFailure(500, WriteError(made, file_path))]
        ELSE [disk |-> WriteBytes(made, file_path, yaml_str),
              ret  |-> PipelineSaveResult(file_path, None, manifest, metadata)]

\* LocalPipelineSink.save keeping one file per version, as the RT sink does
LocalPipelineSink_save_versioned(disk, self, namespace, name, yaml_str, metadata) ==
    LET pipeline_dir == PathJoin(PathJoin(PathJoin(self.home_dir, ".docetl"), namespace),
                                 "pipelines")
        config_dir   == PathJoin(pipeline_dir, "configs")
        name_dir     == PathJoin(PathJoin(pipeline_dir, name), "intermediates")
        made         == Mkdir(Mkdir(disk, config_dir), name_dir)
        version      == Or(Get(metadata, "version"), "local")
        file_path    == PathJoin(config_dir, name \o "-" \o version \o ".yaml")
        manifest     == [pipeline_id |-> Or(Get(metadata, "pipeline_id"), name),
                         version     |-> version,
                         owner       |-> Get(metadata, "owner"),
                         sink        |-> "local"]
    IN  IF WriteError(made, file_path) # ""
        THEN [disk |-> made, ret |-> PipelineFailure(500, WriteError(made, file_path))]
        ELSE [disk |-> WriteBytes(made, file_path, yaml_str),
              ret  |-> PipelineSaveResult(file_path, None, manifest, metadata)]

\* LocalPipelineSink.save; self is [home_dir]
LocalPipelineSink_save(disk, self, namespace, name, yaml_str, metadata) ==
    LET pipeline_dir == PathJoin(PathJoin(PathJoin(self.home_dir, ".docetl"), namespace),
                                 "pipelines")
        config_dir   == PathJoin(pipeline_dir, "configs")
        name_dir     == PathJoin(PathJoin(pipeline_dir, name), "intermediates")
        made         == Mkdir(Mkdir(disk, config_dir), name_dir)
        file_path    == PathJoin(config_dir, name \o ".yaml")
        manifest     == [pipeline_id |-> Or(Get(metadata, "pipeline_id"), name),
                         version     |-> Or(Get(metadata, "version"), "local"),
                         owner       |-> Get(metadata, "owner"),
                         sink        |-> "local"]
    IN  IF WriteError(made, file_path) # ""
        THEN [disk |-> made, ret |-> PipelineFailure(500, WriteError(made, file_path))]
        ELSE [disk |-> WriteBytes(made, file_path, yaml_str),
              ret  |-> PipelineSaveResult(file_path, None, manifest, metadata)]

Pad2(n) == IF n < 10 THEN "0" \o ToString(n) ELSE ToString(n)

\* datetime.now(timezone.utc).strftime("%Y%m%d%H%M%S"): whole seconds
Strftime(now) == "202601010000" \o Pad2(now.sec)

\* datetime.isoformat(): the microseconds are written when they are not 0
IsoFormat(now) ==
    "2026-01-01T00:00:" \o Pad2(now.sec)
    \o (IF now.usec = 0 THEN "" ELSE "." \o ToString(now.usec)) \o "+00:00"

\* RTPipelineSink.save up to the await of store_file: the arguments of
\* store_file
RTPipelineSink_upload(namespace, name, metadata, now) ==
    LET pipeline_id == Or(Get(metadata, "pipeline_id"), name)
        version     == Or(Get(metadata, "version"), Strftime(now))
        owner       == Get(metadata, "owner")
    IN  [pipeline_id |-> pipeline_id, version |-> version, owner |-> owner,
         prefix   |-> "specs/docetl/" \o pipeline_id,
         filename |-> version \o ".yaml",
         upload_metadata |->
             [content_type |-> "text/yaml",
              metadata |-> [pipeline_id |-> pipeline_id, version |-> version,
                            owner |-> owner, namespace |-> namespace]]]

\* RTPipelineSink.save after store_file has answered file_ref; bucket is
\* storage.provider.bucket_name or ""
RTPipelineSink_result(up, file_ref, bucket, metadata, now) ==
    LET persisted_path == Or(file_ref.path, up.prefix \o "/" \o up.filename)
        uri == IF ~Falsy(bucket) THEN "gs://" \o bucket \o "/" \o persisted_path
               ELSE persisted_path
        manifest == [pipeline_id |-> up.pipeline_id, version |-> up.version,
                     owner |-> up.owner, sink |-> "rt", uri |-> uri,
                     saved_at |-> IsoFormat(now)]
    IN  PipelineSaveResult(uri, uri, manifest, metadata)

\* the object key store_file(document_id, filename, ...) writes
ObjectKey(document_id, filename) == document_id \o "/" \o filename

(***************************************************************************)
(* The state machine.  The operations are coroutines on one event loop: a  *)
(* step of a task runs from one await to the next without interleaving,    *)
(* and the answer of an awaited call (HTTP GET, upload read, storage       *)
(* client, layout resolver) is a later step.                               *)
(***************************************************************************)
VARIABLES
    disk,        \* the filesystem: [fs, dirs]
    ds_client,   \* RTDatasetProvider._storage_client
    sink_client, \* RTPipelineSink._storage_client
    built,       \* clients built so far: [ds, sink]
    objects,     \* the object store behind the sink's client: key :> bytes
    clock,       \* the UTC clock: [sec, usec]
    task,        \* per task: the operation it runs, where, and its result
    started      \* operations started so far

vars == <<disk, ds_client, sink_client, built, objects, clock, task, started>>

\* bounds of the model
MaxOps == 2

MaxClock == 1

Tasks == {"t1", "t2"}

HomeDir == "/h"

JsonText == "[{\"a\":1}]"

CsvText == "a,b\n1,2"

Contents == {JsonText, CsvText, "hi"}

NoFile == [filename |-> None, content |-> ""]

\* an UploadFile: its filename and what read() returns
Upload(filename, content) == [filename |-> filename, content |-> content]

\* the save_upload calls of the model: (namespace, file, url)
SaveUploadCalls ==
    { <<"n1", NoFile, None>>,
      <<"n1", Upload("d.json", JsonText), None>>,
      <<"n1", Upload("d.csv", CsvText), None>>,
      <<"n2", Upload("d.json", "hi"), None>>,
      <<"n2", Upload("/x.json", "[1]"), None>>,
      <<"n1", NoFile, "http://w/d.csv">>,
      <<"n1", Upload("u.json", JsonText), "http://w/d.csv">> }

\* the load_dataset calls of the model: (namespace, dataset_url,
\* source_version_id, project_id, env, canonical_source_id)
LoadDatasetCalls ==
    { <<"n1", None, None, None, None, None>>,
      <<"n1", None, "sv1", None, None, None>>,
      <<"n2", None, "sv1", "p1", "dev", None>>,
      <<"n1", None, "sv1", "p1", None, "c1">>,
      <<"n1", "https://w/", None, None, None, None>>,
      <<"n1", "gs://b/x.json", None, None, None, None>>,
      <<"n2", "gs://b/d.csv", None, None, None, None>>,
      <<"n1", "/data/raw.txt", None, None, None, None>>,
      <<"n1", "/data/none.json", None, None, None, None>>,
      <<"n1", "/data/none.json", "sv1", None, None, None>>,
      <<"n2", "/h/.docetl/n1/files/d.json", None, None, None, None>> }

\* what a GET may answer
HttpResponses ==
    {[status |-> 200, content |-> c] : c \in Contents}
    \cup {[status |-> 404, content |-> ""]}

\* what get_file_from_uri may answer
StorageAnswers ==
    {[status |-> 200, content |-> c] : c \in Contents} \cup {[status |-> 0, content |-> ""]}

NoRecord == [k \in {} |-> ""]

NoAnswer == [status |-> 0, content |-> ""]

\* answer is what the awaited call last answered to the task
Idle == [pc |-> "idle", cls |-> None, op |-> None, args |-> NoRecord, loc |-> NoRecord,
         answer |-> NoAnswer, ret |-> HTTPException(0, "")]

Init ==
    /\ disk = [fs |-> ("/data/raw.txt" :> "hi"), dirs |-> {"/", "/h", "/data"}]
    /\ ds_client = None
    /\ sink_client = None
    /\ built = [ds |-> 0, sink |-> 0]
    /\ objects = NoRecord
    /\ clock = [sec |-> 0, usec |-> 0]
    /\ task = [t \in Tasks |-> Idle]
    /\ started = 0

CanStart(t) == task[t].pc = "idle" /\ started < MaxOps

Begin(t, cls, op, args) == [Idle EXCEPT !.cls = cls, !.op = op, !.args = args]

Await(rec, pc, loc) == [rec EXCEPT !.pc = pc, !.loc = loc]

Done(rec, ret) == [rec EXCEPT !.pc = "done", !.loc = NoRecord, !.ret = ret]

Answered(rec, answer) == [rec EXCEPT !.answer = answer]

ProviderSelf(cls) ==
    [home_dir |-> HomeDir, subdir |-> IF cls = "RTDatasetProvider" THEN "rt" ELSE "files"]

\* save_upload refusing a call that supplies both the file and the url
SaveUploadDispatch_exactly_one(file, url) ==
    IF (file = NoFile) = Falsy(url) THEN "raise"
    ELSE IF ~Falsy(url) THEN "_download_url"
    ELSE "_write_content"

\* which branch save_upload takes
SaveUploadDispatch(file, url) ==
    IF file = NoFile /\ Falsy(url) THEN "raise"
    ELSE IF ~Falsy(url) THEN "_download_url"
    ELSE "_write_content"

\* save_upload of LocalDatasetProvider, and of RTDatasetProvider, which hands
\* the call to a LocalDatasetProvider of its own home_dir and subdir
SaveUpload(t, cls, namespace, file, url) ==
    /\ CanStart(t)
    /\ LET rec == Begin(t, cls, "save_upload",
                        [namespace |-> namespace, file |-> file, url |-> url])
       IN  task' = [task EXCEPT ![t] =
              IF SaveUploadDispatch(file, url) = "raise"
              THEN Done(rec, HTTPException(400, "Either file or url must be provided"))
              ELSE IF SaveUploadDispatch(file, url) = "_download_url"
              THEN Await(rec, "http_get", [via |-> "_download_url", url |-> url])
              ELSE Await(rec, "file_read", NoRecord)]
    /\ started' = started + 1
    /\ UNCHANGED <<disk, ds_client, sink_client, built, objects, clock>>

\* content = await file.read(), then _write_content
FileRead(t) ==
    /\ task[t].pc = "file_read"
    /\ LET a   == task[t].args
           out == Local_write_content(disk, ProviderSelf(task[t].cls), a.namespace,
                                      a.file.filename, a.file.content)
       IN  /\ disk' = out.disk
           /\ task' = [task EXCEPT ![t] =
                  Done(Answered(@, [status |-> 200, content |-> a.file.content]), out.ret)]
    /\ UNCHANGED <<ds_client, sink_client, built, objects, clock, started>>

\* resp = await client.get(url), then the rest of _download_url (Local) or
\* of _download_http (RT) up to the end of the "async with" block, where
\* the exit of httpx.AsyncClient is awaited with the result, or the
\* exception, in hand
HttpGet(t) ==
    /\ task[t].pc = "http_get"
    /\ \E resp \in HttpResponses :
          LET a   == task[t].args
              l   == task[t].loc
              out == IF l.via = "_download_url"
                     THEN Local_download_url(disk, ProviderSelf(task[t].cls),
                                             a.namespace, l.url, resp)
                     ELSE RT_download_http(disk, ProviderSelf(task[t].cls),
                                           a.namespace, l.url, resp,
                                           [dataset_url |-> l.url])
          IN  /\ disk' = out.disk
              /\ task' = [task EXCEPT ![t] =
                     Await(Answered(@, resp), "client_close", [ret |-> out.ret])]
    /\ UNCHANGED <<ds_client, sink_client, built, objects, clock, started>>

\* the AsyncClient has closed: _download_url, or _download_http, returns
\* what it held, or raises
ClientClose(t) ==
    /\ task[t].pc = "client_close"
    /\ task' = [task EXCEPT ![t] = Done(@, task[t].loc.ret)]
    /\ UNCHANGED <<disk, ds_client, sink_client, built, objects, clock, started>>

LoadArgs(namespace, dataset_url, source_version_id, project_id, env, canonical_source_id) ==
    [namespace |-> namespace, dataset_url |-> dataset_url,
     source_version_id |-> source_version_id, project_id |-> project_id,
     env |-> env, canonical_source_id |-> canonical_source_id]

IsHttp(url) == StartsWith(url, "http://") \/ StartsWith(url, "https://")

\* load_dataset looking at source_version_id before dataset_url
LocalLoadDispatch_version_first(dataset_url, source_version_id) ==
    IF ~Falsy(source_version_id) THEN "requires_rt"
    ELSE IF ~Falsy(dataset_url)
    THEN IF IsHttp(dataset_url) THEN "_download_url" ELSE "path"
    ELSE "required"

\* which branch LocalDatasetProvider.load_dataset takes
LocalLoadDispatch(dataset_url, source_version_id) ==
    IF ~Falsy(dataset_url)
    THEN IF IsHttp(dataset_url) THEN "_download_url" ELSE "path"
    ELSE IF ~Falsy(source_version_id) THEN "requires_rt"
    ELSE "required"

Local_load_dataset(t, namespace, dataset_url, source_version_id) ==
    /\ CanStart(t)
    /\ LET rec == Begin(t, "LocalDatasetProvider", "load_dataset",
                        LoadArgs(namespace, dataset_url, source_version_id, None, None, None))
           out == Local_load_path(disk, dataset_url)
           branch == LocalLoadDispatch(dataset_url, source_version_id)
       IN  task' = [task EXCEPT ![t] =
              IF branch = "_download_url"
              THEN Await(rec, "http_get", [via |-> "_download_url", url |-> dataset_url])
              ELSE IF branch = "path"
              THEN Done(rec, out.ret)
              ELSE IF branch = "requires_rt"
              THEN Done(rec, HTTPException(400,
                                "source_version_id requires the RT dataset provider"))
              ELSE Done(rec, HTTPException(400,
                                "dataset_url or source_version_id is required"))]
    /\ started' = started + 1
    /\ UNCHANGED <<disk, ds_client, sink_client, built, objects, clock>>

\* which branch RTDatasetProvider.load_dataset takes
RTLoadDispatch(dataset_url, source_version_id) ==
    IF ~Falsy(dataset_url)
    THEN IF IsHttp(dataset_url) THEN "_download_http"
         ELSE IF StartsWith(dataset_url, "gs://") THEN "_fetch_storage_uri"
         ELSE "path"
    ELSE IF ~Falsy(source_version_id) THEN "_resolve_source_version"
    ELSE "required"

RT_load_dataset(t, namespace, dataset_url, source_version_id, project_id, env, canonical_source_id, outcome) ==
    /\ CanStart(t)
    /\ LET rec == Begin(t, "RTDatasetProvider", "load_dataset",
                        LoadArgs(namespace, dataset_url, source_version_id, project_id,
                                 env, canonical_source_id))
           out == RT_load_path(disk, dataset_url)
           es  == _ensure_storage(ds_client, built.ds, outcome)
           branch == RTLoadDispatch(dataset_url, source_version_id)
           needs_storage == branch \in {"_fetch_storage_uri", "_resolve_source_version"}
       IN  /\ task' = [task EXCEPT ![t] =
                 IF branch = "_download_http"
                 THEN Await(rec, "http_get", [via |-> "_download_http", url |-> dataset_url])
                 ELSE IF needs_storage /\ es.status # 200
                 THEN Done(rec, HTTPException(es.status, es.detail))
                 ELSE IF branch = "_fetch_storage_uri"
                 THEN Await(rec, "get_file_from_uri",
                            [storage |-> es.storage, uri |-> dataset_url,
                             metadata |-> [dataset_url |-> dataset_url]])
                 ELSE IF branch = "path"
                 THEN Done(rec, out.ret)
                 ELSE IF branch = "_resolve_source_version"
                 THEN Await(rec, "load_layout", [storage |-> es.storage])
                 ELSE Done(rec, HTTPException(400,
                                   "dataset_url or source_version_id is required"))]
           /\ ds_client' = IF needs_storage THEN es.client ELSE ds_client
           /\ built' = IF needs_storage THEN [built EXCEPT !.ds = @ + es.built] ELSE built
    /\ started' = started + 1
    /\ UNCHANGED <<disk, sink_client, objects, clock>>

\* layout = await resolver.load_layout(env), then the rest of
\* _resolve_source_version up to the await of _fetch_storage_uri
ResolveSourceVersion(t) ==
    /\ task[t].pc = "load_layout"
    /\ \E outcome \in ConfigOutcomes :
          LET a      == task[t].args
              layout == LoadLayout(a.env)
              cid    == EnvelopeCid(a.canonical_source_id, a.project_id)
              es     == _ensure_storage(ds_client, built.ds, outcome)
          IN  /\ task' = [task EXCEPT ![t] =
                    IF es.status # 200 THEN Done(@, HTTPException(es.status, es.detail))
                    ELSE Await(@, "get_file_from_uri",
                               [storage |-> es.storage,
                                uri |-> EnvelopeUri(layout, cid, a.source_version_id),
                                metadata |-> EnvelopeMetadata(layout, cid,
                                                a.source_version_id, a.env)])]
              /\ ds_client' = es.client
              /\ built' = [built EXCEPT !.ds = @ + es.built]
    /\ UNCHANGED <<disk, sink_client, objects, clock, started>>

\* payload = await storage.get_file_from_uri(uri), then _write_bytes
GetFileFromUri(t) ==
    /\ task[t].pc = "get_file_from_uri"
    /\ \E got \in StorageAnswers :
          LET l   == task[t].loc
              out == RT_fetch_storage_uri(disk, ProviderSelf(task[t].cls),
                                          task[t].args.namespace, l.uri, got, l.metadata)
          IN  /\ disk' = out.disk
              /\ task' = [task EXCEPT ![t] = Done(Answered(@, got), out.ret)]
    /\ UNCHANGED <<ds_client, sink_client, built, objects, clock, started>>

\* the caller has the result; the task is free for the next request
Return(t) ==
    /\ task[t].pc = "done"
    /\ task' = [task EXCEPT ![t] = Idle]
    /\ UNCHANGED <<disk, ds_client, sink_client, built, objects, clock, started>>

SaveArgs(namespace, name, yaml_str, metadata) ==
    [namespace |-> namespace, name |-> name, yaml_str |-> yaml_str, metadata |-> metadata]

\* LocalPipelineSink.save: no await
Local_save(t, namespace, name, yaml_str, metadata) ==
    /\ CanStart(t)
    /\ LET rec == Begin(t, "LocalPipelineSink", "save",
                        SaveArgs(namespace, name, yaml_str, metadata))
           out == LocalPipelineSink_save(disk, [home_dir |-> HomeDir], namespace, name,
                                         yaml_str, metadata)
       IN  /\ disk' = out.disk
           /\ task' = [task EXCEPT ![t] = Done(rec, out.ret)]
    /\ started' = started + 1
    /\ UNCHANGED <<ds_client, sink_client, built, objects, clock>>

\* RTPipelineSink.save up to the await of store_file
RT_save(t, namespace, name, yaml_str, metadata, outcome) ==
    /\ CanStart(t)
    /\ LET rec == Begin(t, "RTPipelineSink", "save",
                        SaveArgs(namespace, name, yaml_str, metadata))
           es  == _ensure_storage(sink_client, built.sink, outcome)
           up  == RTPipelineSink_upload(namespace, name, metadata, clock)
       IN  /\ task' = [task EXCEPT ![t] =
                 IF es.status # 200 THEN Done(rec, PipelineFailure(es.status, es.detail))
                 ELSE Await(rec, "store_file", [storage |-> es.storage, up |-> up])]
           /\ sink_client' = es.client
           /\ built' = [built EXCEPT !.sink = @ + es.built]
    /\ started' = started + 1
    /\ UNCHANGED <<disk, ds_client, objects, clock>>

\* file_ref = await storage.store_file(...): the client stores the object
\* and answers its path, or no path; then the rest of save
StoreFile(t) ==
    /\ task[t].pc = "store_file"
    /\ \E bucket \in {"b", ""}, with_path \in BOOLEAN :
          LET a   == task[t].args
              up  == task[t].loc.up
              key == ObjectKey(up.prefix, up.filename)
              file_ref == [path |-> IF with_path THEN key ELSE ""]
              ret == RTPipelineSink_result(up, file_ref, bucket, a.metadata, clock)
          IN  /\ objects' = (key :> a.yaml_str) @@ objects
              /\ task' = [task EXCEPT ![t] = Done(@, ret)]
    /\ UNCHANGED <<disk, ds_client, sink_client, built, clock, started>>

\* time passes: half a second
Tick ==
    /\ \/ clock.usec = 0 /\ clock' = [clock EXCEPT !.usec = 500000]
       \/ clock.usec # 0 /\ clock.sec < MaxClock /\ clock' = [sec |-> clock.sec + 1, usec |-> 0]
    /\ UNCHANGED <<disk, ds_client, sink_client, built, objects, task, started>>

Metadata(pipeline_id, version, owner) ==
    [input_path |-> "in.json", output_path |-> "out.json", pipeline_id |-> pipeline_id,
     version |-> version, owner |-> owner]

\* the save calls of the model: (namespace, name, yaml_str, metadata)
SaveCalls ==
    { <<"n1", "p", "a: 1", NoMetadata>>,
      <<"n1", "p", "b: 2", Metadata(None, "v2", "me")>>,
      <<"n1", "q", "a: 1", Metadata("pid", None, "me")>>,
      <<"n1", "q", "b: 2", Metadata(None, None, None)>>,
      <<"n2", "p", "b: 2", Metadata(None, None, None)>>,
      <<"n2", "q", "a: 1", Metadata("pid", "v2", None)>> }

\* the steps of task t on the pipeline sinks
PipelineStep(t) ==
    \/ \E c \in SaveCalls : Local_save(t, c[1], c[2], c[3], c[4])
    \/ \E c \in SaveCalls, outcome \in ConfigOutcomes :
          RT_save(t, c[1], c[2], c[3], c[4], outcome)
    \/ StoreFile(t)
    \/ Return(t)

\* the steps of task t on the dataset providers
DatasetStep(t) ==
    \/ \E cls \in {"LocalDatasetProvider", "RTDatasetProvider"}, c \in SaveUploadCalls :
          SaveUpload(t, cls, c[1], c[2], c[3])
    \/ FileRead(t)
    \/ HttpGet(t)
    \/ ClientClose(t)
    \/ \E c \in LoadDatasetCalls : Local_load_dataset(t, c[1], c[2], c[3])
    \/ \E c \in LoadDatasetCalls, outcome \in ConfigOutcomes :
          RT_load_dataset(t, c[1], c[2], c[3], c[4], c[5], c[6], outcome)
    \/ ResolveSourceVersion(t)
    \/ GetFileFromUri(t)
    \/ Return(t)

\* the load_dataset calls that reach the storage client
StorageCalls ==
    {c \in LoadDatasetCalls :
        RTLoadDispatch(c[2], c[3]) \in {"_fetch_storage_uri", "_resolve_source_version"}}

\* the steps of task t on the two classes that hold a storage client
StorageStep(t) ==
    \/ \E c \in StorageCalls, outcome \in ConfigOutcomes :
          RT_load_dataset(t, c[1], c[2], c[3], c[4], c[5], c[6], outcome)
    \/ ResolveSourceVersion(t)
    \/ GetFileFromUri(t)
    \/ \E c \in SaveCalls, outcome \in ConfigOutcomes :
          RT_save(t, c[1], c[2], c[3], c[4], outcome)
    \/ StoreFile(t)
    \/ Return(t)

\* concurrent saves on the local sink
NextLocalSink == \E t \in Tasks : \/ \E c \in SaveCalls : Local_save(t, c[1], c[2], c[3], c[4])
                                  \/ Return(t)

SpecLocalSink == Init /\ [][NextLocalSink]_vars

\* pipeline saves of concurrent requests, as time passes
NextPipeline == (\E t \in Tasks : PipelineStep(t)) \/ Tick

SpecPipeline == Init /\ [][NextPipeline]_vars

\* dataset requests served one after the other
NextDataset == \E t \in {"t1"} : DatasetStep(t)

SpecDataset == Init /\ [][NextDataset]_vars

\* concurrent requests on one RTDatasetProvider and one RTPipelineSink
NextRT == \E t \in Tasks : StorageStep(t)

SpecRT == Init /\ [][NextRT]_vars

\* the filenames and contents of the uploads handed to _write_content
UploadNames == {"d.csv", "d.json", "data.CSV", "d.csv.bak"}

UploadContents == {CsvText, "a,b\n1", "a,b\n1,2,3", "a,b", JsonText, "hi", xFF}

\* uploads to one namespace of the Local provider, one after the other
NextUpload ==
    \E t \in {"t1"} :
        \/ \E filename \in UploadNames, content \in UploadContents :
              SaveUpload(t, "LocalDatasetProvider", "n1", Upload(filename, content), None)
        \/ FileRead(t)
        \/ Return(t)

SpecUpload == Init /\ [][NextUpload]_vars

\* the path the uploads of d.json, and the downloads of d.csv, to the
\* namespace n1 of the Local provider are stored at
StoredPath == "/h/.docetl/n1/files/d.json"

\* concurrent requests that materialize to the same names of one
\* namespace, and loads of what they stored
ConcurrentStep(t) ==
    \/ \E c \in {<<Upload("d.json", JsonText), None>>, <<NoFile, "http://w/d.csv">>} :
          SaveUpload(t, "LocalDatasetProvider", "n1", c[1], c[2])
    \/ FileRead(t)
    \/ HttpGet(t)
    \/ ClientClose(t)
    \/ Local_load_dataset(t, "n1", StoredPath, None)
    \/ RT_load_dataset(t, "n1", "https://w/", None, None, None, None, "ok")
    \/ Return(t)

NextConcurrent == \E t \in Tasks : ConcurrentStep(t)

SpecConcurrent == Init /\ [][NextConcurrent]_vars

Next == (\E t \in Tasks : DatasetStep(t) \/ PipelineStep(t)) \/ Tick

Spec == Init /\ [][Next]_vars

(***************************************************************************)
(* Properties                                                              *)
(***************************************************************************)
\* task t ends an operation in this step
Completes(t) == task[t].pc # "done" /\ task'[t].pc = "done"

\* task t is called in this step
Called(t) == task[t].pc = "idle" /\ task'[t].pc # "idle"

\* task t gets, in this step, the answer of the read, the GET or the storage
\* client it awaited, and materializes it
Materializes(t) ==
    /\ task[t].pc \in {"file_read", "http_get", "get_file_from_uri"}
    /\ task'[t].pc \in {"client_close", "done"}

\* the result, or the failure, task record rec holds
Outcome(rec) == IF rec.pc = "client_close" THEN rec.loc.ret ELSE rec.ret

IsDone(t, cls, op) == task[t].pc = "done" /\ task[t].cls = cls /\ task[t].op = op

Supplied(metadata, key) == key \in DOMAIN metadata /\ metadata[key] \notin {None, ""}

\* <home>/.docetl/<namespace>/pipelines/configs/<name>.yaml
ConfigPath(namespace, name) ==
    HomeDir \o "/.docetl/" \o namespace \o "/pipelines/configs/" \o name \o ".yaml"

\* the config files kept for a pipeline name of a namespace
ConfigFiles(d, namespace, name) ==
    {p \in DOMAIN d.fs :
        /\ PathUnder(p, HomeDir \o "/.docetl/" \o namespace \o "/pipelines/configs")
        /\ StartsWith(PathName(p), name)}

IsDatasetOp(rec) == rec.op \in {"save_upload", "load_dataset"}

\* every non-blank line is a JSON document
JsonLines(content) ==
    LET lines == SelectSeq(SplitLines(content), LAMBDA line : SkipWs(line, 1) <= Len(line))
    IN  /\ DecodesUtf8(content)
        /\ lines # <<>>
        /\ \A i \in 1..Len(lines) : JsonLoads(lines[i])

WellFormedJson(content) == JsonLoads(content) \/ JsonLines(content)

\* <home>/.docetl/<namespace>
NamespaceRoot(namespace) == HomeDir \o "/.docetl/" \o namespace

\* C1: when a save_upload or load_dataset call returns a result, on either
\* provider and for every source kind, the file at the result's path exists
\* and its content is well-formed JSON.
C1_ResultFileIsJson ==
    [][ \A t \in Tasks :
            Completes(t) /\ IsDatasetOp(task'[t]) /\ task'[t].ret.status = 200 =>
                /\ task'[t].ret.path \in DOMAIN disk'.fs
                /\ WellFormedJson(disk'.fs[task'[t].ret.path])
      ]_vars

\* C2 as stated: a save_upload call with neither the file nor the url, and
\* one with both, ends with status 400 and leaves the disk as it was.
C2_ExactlyOne ==
    [][ \A t \in Tasks :
            Completes(t) /\ task'[t].op = "save_upload" =>
                LET a == task'[t].args
                IN  (a.file = NoFile) = Falsy(a.url) =>
                        task'[t].ret.status = 400 /\ disk' = disk
      ]_vars

\* C2 amended: a save_upload call with neither the file nor the url ends at
\* once with status 400 and leaves the disk as it was; a call with a url,
\* with or without a file, goes on to download the url, and its result is
\* made from the url and the downloaded content, not from the file; a call
\* with only a file goes on to read the file.
C2_AtLeastOne ==
    [][ \A t \in Tasks :
          /\ Called(t) /\ task'[t].op = "save_upload" =>
                LET a == task'[t].args
                IN  /\ disk' = disk
                    /\ IF a.file = NoFile /\ Falsy(a.url)
                       THEN task'[t].pc = "done" /\ task'[t].ret.status = 400
                       ELSE IF ~Falsy(a.url)
                       THEN task'[t].pc = "http_get" /\ task'[t].loc.url = a.url
                       ELSE task'[t].pc = "file_read"
          /\ Completes(t) /\ task'[t].op = "save_upload" /\ task'[t].ret.status = 200 =>
                LET a == task'[t].args
                    r == task'[t].ret
                    filename == IF ~Falsy(a.url) THEN UrlFilename(a.url) ELSE a.file.filename
                IN  /\ r.metadata.filename = Replace(filename, ".csv", ".json")
                    /\ r.content = Normalize(task'[t].answer.content, filename).out
                    /\ ~Falsy(a.url) => task[t].pc = "client_close"
      ]_vars

\* a save_upload call with both a file and a url has returned a result made
\* from the url
C2_Witness ==
    \E t \in Tasks :
        /\ task[t].pc = "done" /\ task[t].op = "save_upload"
        /\ task[t].args.file # NoFile /\ ~Falsy(task[t].args.url)
        /\ task[t].ret.status = 200
        /\ task[t].ret.metadata.filename # task[t].args.file.filename
        /\ task[t].ret.path \in DOMAIN disk.fs

\* the object key of a returned RT save
SavedKey(ret) == "specs/docetl/" \o ret.manifest.pipeline_id \o "/" \o ret.manifest.version \o ".yaml"

\* C3: two RTPipelineSink.save calls for the same (namespace, name) whose
\* metadata carries no version return two distinct version strings and write
\* two distinct object keys.
C3_DistinctVersions ==
    \A t, u \in Tasks :
        /\ t # u
        /\ IsDone(t, "RTPipelineSink", "save") /\ task[t].ret.status = 200
        /\ IsDone(u, "RTPipelineSink", "save") /\ task[u].ret.status = 200
        /\ task[t].args.namespace = task[u].args.namespace
        /\ task[t].args.name = task[u].args.name
        /\ ~Supplied(task[t].args.metadata, "version")
        /\ ~Supplied(task[u].args.metadata, "version")
        => /\ task[t].ret.manifest.version # task[u].ret.manifest.version
           /\ SavedKey(task[t].ret) # SavedKey(task[u].ret)

\* C4 as stated: the manifest of every successful LocalPipelineSink.save has
\* version "local", whatever the metadata, with pipeline_id the metadata's
\* pipeline_id or else name, the metadata's owner and sink "local".
C4_VersionAlwaysLocal ==
    \A t \in Tasks :
        IsDone(t, "LocalPipelineSink", "save") /\ task[t].ret.status = 200 =>
            LET md == task[t].args.metadata
                m  == task[t].ret.manifest
            IN  /\ m.version = "local"
                /\ m.pipeline_id = (IF Supplied(md, "pipeline_id") THEN md.pipeline_id
                                    ELSE task[t].args.name)
                /\ m.owner = Get(md, "owner")
                /\ m.sink = "local"

\* C4 amended: the manifest's version is the metadata's version when the
\* metadata supplies a non-empty one and "local" otherwise; pipeline_id is
\* the metadata's pipeline_id or else name, owner the metadata's owner and
\* sink "local".
C4_ManifestVersion ==
    \A t \in Tasks :
        IsDone(t, "LocalPipelineSink", "save") /\ task[t].ret.status = 200 =>
            LET md == task[t].args.metadata
                m  == task[t].ret.manifest
            IN  /\ m.version = (IF Supplied(md, "version") THEN md.version ELSE "local")
                /\ m.pipeline_id = (IF Supplied(md, "pipeline_id") THEN md.pipeline_id
                                    ELSE task[t].args.name)
                /\ m.owner = Get(md, "owner")
                /\ m.sink = "local"

\* a local save whose metadata names version "v2" has returned it in the
\* manifest, and one without a version has returned "local"
C4_Witness ==
    \E t, u \in Tasks :
        /\ IsDone(t, "LocalPipelineSink", "save") /\ task[t].ret.status = 200
        /\ Supplied(task[t].args.metadata, "version")
        /\ task[t].ret.manifest.version = "v2"
        /\ IsDone(u, "LocalPipelineSink", "save") /\ task[u].ret.status = 200
        /\ ~Supplied(task[u].args.metadata, "version")
        /\ task[u].ret.manifest.version = "local"

\* C5: every successful LocalPipelineSink.save for (namespace, name) returns
\* the path <namespace>/pipelines/configs/<name>.yaml and leaves exactly one
\* config file for that name, holding the yaml text of this save; a step that
\* is not such a save leaves every config file as it was, so the file holds
\* the text of the most recent save.
C5_LocalSaveOverwrites ==
    [][ /\ \A t \in Tasks :
             Completes(t) /\ task'[t].cls = "LocalPipelineSink" /\ task'[t].ret.status = 200 =>
                LET a == task'[t].args
                    p == ConfigPath(a.namespace, a.name)
                IN  /\ task'[t].ret.path = p
                    /\ ConfigFiles(disk', a.namespace, a.name) = {p}
                    /\ disk'.fs[p] = a.yaml_str
                    /\ \A q \in DOMAIN disk.fs : q # p => disk'.fs[q] = disk.fs[q]
        /\ (\A t \in Tasks : ~(Completes(t) /\ task'[t].cls = "LocalPipelineSink"))
              => disk'.fs = disk.fs
      ]_vars

\* two saves of the same (namespace, name) with different texts have
\* returned the same path, and the file holds one of the two texts
C5_Witness ==
    \E t, u \in Tasks :
        /\ IsDone(t, "LocalPipelineSink", "save") /\ task[t].ret.status = 200
        /\ IsDone(u, "LocalPipelineSink", "save") /\ task[u].ret.status = 200
        /\ task[t].args.namespace = task[u].args.namespace
        /\ task[t].args.name = task[u].args.name
        /\ task[t].args.yaml_str # task[u].args.yaml_str
        /\ task[t].ret.path = task[u].ret.path
        /\ disk.fs[task[t].ret.path] = task[u].args.yaml_str
        /\ Cardinality(ConfigFiles(disk, task[t].args.namespace, task[t].args.name)) = 1

\* C6: every dataset result, whatever its origin and provider, has a path
\* under the directory of the namespace given in the call.
C6_PathUnderNamespace ==
    \A t \in Tasks :
        task[t].pc = "done" /\ IsDatasetOp(task[t]) /\ task[t].ret.status = 200 =>
            PathUnder(task[t].ret.path, NamespaceRoot(task[t].args.namespace))

\* C7: each instance builds at most one storage client, keeps it once
\* built, and every operation waiting on the storage client holds that one.
C7_ClientBuiltOnce ==
    /\ built.ds <= 1 /\ built.sink <= 1
    /\ built.ds = 1 => ds_client = ClientName(1)
    /\ built.sink = 1 => sink_client = ClientName(1)
    /\ \A t \in Tasks :
          /\ task[t].pc \in {"load_layout", "get_file_from_uri"} =>
                ~Falsy(ds_client) /\ task[t].loc.storage = ds_client
          /\ task[t].pc = "store_file" =>
                ~Falsy(sink_client) /\ task[t].loc.storage = sink_client

\* two operations of the RT dataset provider wait on the one client it has
\* built, and two saves of the RT sink wait on the one client it has built
C7_Witness ==
    \/ /\ built.ds = 1
       /\ \A t \in Tasks : /\ task[t].pc \in {"load_layout", "get_file_from_uri"}
                           /\ task[t].loc.storage = ds_client
    \/ /\ built.sink = 1
       /\ \A t \in Tasks : task[t].pc = "store_file" /\ task[t].loc.storage = sink_client

IsGsLoad(rec) ==
    /\ rec.cls = "RTDatasetProvider" /\ rec.op = "load_dataset"
    /\ ~Falsy(rec.args.dataset_url) /\ StartsWith(rec.args.dataset_url, "gs://")

\* C8: when RTDatasetProvider.load_dataset of a gs:// dataset_url returns a
\* result, the result's content and the file at its path are exactly the
\* bytes get_file_from_uri answered for that URI, and the metadata is
\* dataset_url, source_uri, namespace and provider "rt".
C8_GsContentVerbatim ==
    [][ \A t \in Tasks :
            Completes(t) /\ IsGsLoad(task'[t]) /\ task'[t].ret.status = 200 =>
                LET a == task'[t].args
                    r == task'[t].ret
                IN  /\ task[t].pc = "get_file_from_uri"
                    /\ task[t].loc.uri = a.dataset_url
                    /\ r.content = task'[t].answer.content
                    /\ r.path \in DOMAIN disk'.fs
                    /\ disk'.fs[r.path] = task'[t].answer.content
                    /\ r.metadata = [dataset_url |-> a.dataset_url,
                                     source_uri  |-> a.dataset_url,
                                     namespace   |-> a.namespace,
                                     provider    |-> "rt"]
      ]_vars

\* a gs:// load has returned the CSV bytes the storage client answered
C8_Witness ==
    \E t \in Tasks :
        /\ task[t].pc = "done" /\ IsGsLoad(task[t]) /\ task[t].ret.status = 200
        /\ task[t].answer.content = CsvText
        /\ task[t].ret.content = CsvText
        /\ disk.fs[task[t].ret.path] = CsvText

\* C9: RTDatasetProvider.load_dataset normalizes what it fetched from a
\* gs:// URI or an http(s) URL before it writes: content classified as CSV
\* is stored as the JSON array of its rows, and content that is neither
\* valid CSV nor valid JSON is refused with no file written.
C9_RTNormalizes ==
    [][ \A t \in Tasks :
            /\ Materializes(t)
            /\ task'[t].cls = "RTDatasetProvider" /\ task'[t].op = "load_dataset"
            /\ ~Falsy(task'[t].args.dataset_url)
            /\ task'[t].answer.status = 200
            => LET filename == UrlFilename(task'[t].args.dataset_url)
                   content  == task'[t].answer.content
                   r        == Outcome(task'[t])
               IN  IF Normalize(content, filename).status # 200
                   THEN r.status # 200 /\ disk'.fs = disk.fs
                   ELSE /\ r.status = 200
                        /\ JsonLoads(disk'.fs[r.path])
                        /\ _is_likely_csv(content, filename) =>
                              disk'.fs[r.path] = JsonDumps(DictReader(SplitLines(content)))
      ]_vars

\* C10: LocalDatasetProvider.load_dataset ends at once and leaves the disk
\* as it was: with status 404 for a dataset_url that is not http(s) and names
\* no existing path, with status 400 (the RT provider is required) for a
\* source_version_id without dataset_url, and with status 400 for neither.
C10_LocalLoadFailures ==
    [][ \A t \in Tasks :
            Called(t) /\ task'[t].cls = "LocalDatasetProvider" /\ task'[t].op = "load_dataset" =>
                LET a == task'[t].args
                    r == task'[t].ret
                    failed(status) == task'[t].pc = "done" /\ r.status = status /\ disk' = disk
                IN  /\ ( /\ ~Falsy(a.dataset_url) /\ ~IsHttp(a.dataset_url)
                         /\ ~Exists(disk, PathStr(a.dataset_url)) ) => failed(404)
                    /\ Falsy(a.dataset_url) /\ ~Falsy(a.source_version_id) =>
                          /\ failed(400)
                          /\ r.detail = "source_version_id requires the RT dataset provider"
                    /\ Falsy(a.dataset_url) /\ Falsy(a.source_version_id) => failed(400)
      ]_vars

\* a local load of a missing path, called with a source_version_id as well,
\* has failed with 404
C10_Witness ==
    \E t \in Tasks :
        /\ IsDone(t, "LocalDatasetProvider", "load_dataset")
        /\ ~Falsy(task[t].args.dataset_url) /\ ~Falsy(task[t].args.source_version_id)
        /\ ~Exists(disk, PathStr(task[t].args.dataset_url))
        /\ task[t].ret.status = 404

\* json.loads read back: the positions where the elements of the top-level
\* array of s start, i being the position after "[" or after a ","
RECURSIVE ElementStarts(_, _)
ElementStarts(s, i) ==
    LET b == SkipWs(s, i)
        v == ParseValue(s, b)
        j == SkipWs(s, v)
    IN  IF v = 0 \/ j > Len(s) THEN <<>>
        ELSE IF Char(s, j) = "," THEN <<b>> \o ElementStarts(s, j + 1)
        ELSE <<b>>

JsonArray(s) ==
    LET i == SkipWs(s, 1)
        j == SkipWs(s, i + 1)
    IN  IF i > Len(s) \/ Char(s, i) # "[" THEN <<>>
        ELSE IF j <= Len(s) /\ Char(s, j) = "]" THEN <<>>
        ELSE ElementStarts(s, j)

\* the keys of the members of an object of s, i being the opening quote of
\* a member's key
RECURSIVE MemberKeys(_, _)
MemberKeys(s, i) ==
    LET k == ParseStringBody(s, i + 1)
        c == SkipWs(s, k)
        v == ParseValue(s, c + 1)
        j == SkipWs(s, v)
    IN  IF k = 0 \/ v = 0 THEN {}
        ELSE {SubSeq(s, i + 1, k - 2)}
             \cup (IF j <= Len(s) /\ Char(s, j) = "," THEN MemberKeys(s, SkipWs(s, j + 1))
                   ELSE {})

\* the keys of the object of s that starts at i, {} when no object does
JsonObjectKeys(s, i) ==
    IF i > Len(s) \/ Char(s, i) # "{" THEN {}
    ELSE LET j == SkipWs(s, i + 1)
         IN  IF j <= Len(s) /\ Char(s, j) = "\"" THEN MemberKeys(s, j) ELSE {}

\* the data rows of a CSV text: its non-empty lines after the first
DataRows(content) ==
    LET lines == SplitLines(content)
    IN  SelectSeq(SubSeq(lines, 2, Len(lines)), LAMBDA line : line # "")

HeaderRow(content) ==
    LET fields == Split(SplitLines(content)[1], ",")
    IN  {fields[i] : i \in 1..Len(fields)}

\* task t ends, in this step, a save_upload that handed its file to
\* _write_content
FileMaterialized(t) ==
    /\ task[t].pc = "file_read" /\ task'[t].pc = "done"
    /\ task'[t].op = "save_upload"

\* C12: for every CSV-classified upload with a header row and at least one
\* data row, the stored content is a JSON array with as many elements as
\* there are data rows, and the keys of every element are the header row,
\* also when a data row has fewer or more fields than the header.
C12_CsvRowsAndKeys ==
    [][ \A t \in Tasks :
            FileMaterialized(t) =>
                LET f    == task'[t].args.file
                    ret  == task'[t].ret
                    elts == JsonArray(ret.content)
                IN  /\ _is_likely_csv(f.content, f.filename)
                    /\ DecodesUtf8(f.content)
                    /\ SplitLines(f.content) # <<>>
                    /\ DataRows(f.content) # <<>>
                    => /\ ret.status = 200
                       /\ Len(elts) = Len(DataRows(f.content))
                       /\ \A i \in 1..Len(elts) :
                             JsonObjectKeys(ret.content, elts[i]) = HeaderRow(f.content)
      ]_vars

\* C13: a file materialized by the Local provider under a name with a .csv
\* extension, in any case, is stored under the same basename with a .json
\* extension, and under every other name it is stored under that name.
C13_CsvRenamedToJson ==
    [][ \A t \in Tasks :
            FileMaterialized(t) /\ task'[t].ret.status = 200 =>
                LET filename == task'[t].args.file.filename
                    ret      == task'[t].ret
                    expected == IF EndsWith(Lower(filename), ".csv")
                                THEN SubSeq(filename, 1, Len(filename) - 4) \o ".json"
                                ELSE filename
                IN  /\ PathName(ret.path) = expected
                    /\ ret.metadata.filename = expected
      ]_vars

\* what normalization and validation raise
NormalizationFailures ==
    {"CSV file is empty", "Invalid CSV encoding", "Invalid JSON format", "UnicodeDecodeError"}

\* C16: when the Local provider's materialization fails in normalization or
\* JSON validation, no file is created or modified: the files are as they
\* were, and the directories are as they were but for the namespace
\* directory and its parents.
C16_FailedNormalizationFrame ==
    [][ \A t \in Tasks :
            /\ FileMaterialized(t)
            /\ task'[t].ret.status # 200
            /\ task'[t].ret.detail \in NormalizationFailures
            => /\ disk'.fs = disk.fs
               /\ disk'.dirs = disk.dirs
                     \cup Ancestors(Local_namespace_dir(ProviderSelf(task'[t].cls),
                                                        task'[t].args.namespace))
      ]_vars

\* an upload has failed in validation while a file stored earlier is at its
\* target path
C16_Witness ==
    \E t \in Tasks :
        /\ task[t].pc = "done" /\ task[t].op = "save_upload"
        /\ task[t].ret.status = 400 /\ task[t].ret.detail = "Invalid JSON format"
        /\ LET target == PathJoin(Local_namespace_dir(ProviderSelf(task[t].cls),
                                                      task[t].args.namespace),
                                  Replace(task[t].args.file.filename, ".csv", ".json"))
           IN  target \in DOMAIN disk.fs /\ disk.fs[target] # task[t].args.file.content

\* task record rec is an RTDatasetProvider.load_dataset call with a
\* source_version_id and no dataset_url
IsEnvelopeLoad(rec) ==
    /\ rec.cls = "RTDatasetProvider" /\ rec.op = "load_dataset"
    /\ Falsy(rec.args.dataset_url) /\ ~Falsy(rec.args.source_version_id)

\* the canonical id of the call: canonical_source_id if set, else
\* project_id if set, else "document"
ChosenCid(a) ==
    IF ~Falsy(a.canonical_source_id) THEN a.canonical_source_id
    ELSE IF ~Falsy(a.project_id) THEN a.project_id
    ELSE "document"

\* gs://<layout.bucket>/<prefix>/envelope/envelope.json for the call
ExpectedEnvelopeUri(a) ==
    LET layout == LoadLayout(a.env)
        prefix == BuildUnstructuredSvPrefix(layout, ChosenCid(a), a.source_version_id)
    IN  "gs://" \o layout.bucket \o "/" \o prefix \o "/envelope/envelope.json"

\* C14: RT load_dataset with a source_version_id and no dataset_url asks the
\* storage client for exactly gs://<layout.bucket>/<prefix>/envelope/envelope.json,
\* the prefix built from canonical_source_id if set, else project_id if
\* set, else "document", and its result's metadata records the
\* source_version_id, that canonical id and the env.
C14_EnvelopeUri ==
    [][ \A t \in Tasks :
          /\ IsEnvelopeLoad(task'[t]) /\ task'[t].pc = "get_file_from_uri" =>
                task'[t].loc.uri = ExpectedEnvelopeUri(task'[t].args)
          /\ IsEnvelopeLoad(task'[t]) /\ task[t].pc = "get_file_from_uri"
             /\ task'[t].pc = "done" /\ task'[t].ret.status = 200 =>
                LET a  == task'[t].args
                    md == task'[t].ret.metadata
                IN  /\ task[t].loc.uri = ExpectedEnvelopeUri(a)
                    /\ md.source_uri = ExpectedEnvelopeUri(a)
                    /\ md.source_version_id = a.source_version_id
                    /\ md.canonical_source_id = ChosenCid(a)
                    /\ "env" \in DOMAIN md
                    /\ ~Falsy(a.env) => md.env = a.env
      ]_vars

\* an envelope load without a canonical_source_id has returned the envelope
\* found under its project_id
C14_Witness ==
    \E t \in Tasks :
        /\ task[t].pc = "done" /\ IsEnvelopeLoad(task[t]) /\ task[t].ret.status = 200
        /\ Falsy(task[t].args.canonical_source_id)
        /\ task[t].ret.metadata.canonical_source_id = task[t].args.project_id
        /\ task[t].ret.metadata.source_uri = "gs://b/dev/p1/sv1/envelope/envelope.json"

\* C15: when a save_upload or load_dataset call returns a result, the file
\* at the result's path holds exactly the result's content, whatever other
\* dataset operations ran meanwhile, also when they write the same filename
\* of the same namespace.
C15_ContentOnDiskAtReturn ==
    [][ \A t \in Tasks :
            Completes(t) /\ IsDatasetOp(task'[t]) /\ task'[t].ret.status = 200 =>
                /\ task'[t].ret.path \in DOMAIN disk'.fs
                /\ disk'.fs[task'[t].ret.path] = task'[t].ret.content
      ]_vars

\* C11: when a save_upload of the Local provider has returned path p and
\* content c, and the file at p holds what that save wrote (no other
\* operation has written p since), a load_dataset of the Local provider
\* with dataset_url = p returns content c and path p.
C11_RoundTrip ==
    [][ \A t, u \in Tasks :
            /\ t # u
            /\ IsDone(u, "LocalDatasetProvider", "save_upload") /\ task[u].ret.status = 200
            /\ disk.fs[task[u].ret.path] = task[u].ret.content
            /\ Called(t) /\ task'[t].cls = "LocalDatasetProvider"
            /\ task'[t].op = "load_dataset"
            /\ task'[t].args.dataset_url = task[u].ret.path
            => /\ task'[t].pc = "done"
               /\ task'[t].ret.status = 200
               /\ task'[t].ret.content = task[u].ret.content
               /\ task'[t].ret.path = task[u].ret.path
      ]_vars

\* a CSV download saved as JSON has been loaded back from the path the save
\* returned
C11_Witness ==
    \E t, u \in Tasks :
        /\ IsDone(u, "LocalDatasetProvider", "save_upload") /\ task[u].ret.status = 200
        /\ task[u].answer.content = CsvText
        /\ IsDone(t, "LocalDatasetProvider", "load_dataset") /\ task[t].ret.status = 200
        /\ task[t].args.dataset_url = task[u].ret.path
        /\ task[t].ret.content = task[u].ret.content
        /\ task[t].ret.content = JsonDumps(DictReader(SplitLines(CsvText)))

====
